---- MODULE Spec2Model ----
(***************************************************************************)
(* Model of the instaman worker: the scheduler loop (Worker.StartCopying), *)
(* the job claim (Worker.NextCopyJob, Database.NextJob), the copy-job      *)
(* runner (Worker.RunCopyJob) and the store operations it calls            *)
(* (TouchJob, InsertJobEvent, StoreCopyJobResults, UpdateJob, ScheduleJob).*)
(* Time is counted in milliseconds.  A nullable value (a Go pointer, a SQL *)
(* NULL) is the empty tuple when absent and a one-element tuple otherwise. *)
(***************************************************************************)
EXTENDS Integers, Sequences, FiniteSets, TLC

\* ------------------------------------------------------------------ bounds
NumJobs == 2        \* rows of the jobs table
MaxIter == 2        \* iterations of the scheduler loop that are explored
MaxFaults == 1      \* disturbances of a behaviour: store calls that fail for a reason
                    \* other than cancellation, and job updates made by an operator
LongList == 5       \* pages of the connection list of an odd account
ShortList == 2      \* pages of the connection list of an even account
MaxDraws == 2       \* values of one rand.IntN call that are explored
MaxStores == 3      \* calls of StoreCopyJobResults made on their own
MaxTicks == 2       \* minutes that pass between those calls
MaxCallers == 2     \* concurrent callers of NextJob
MaxRounds == 3      \* iterations of the loop when nothing fails

\* ------------------------------------------------- time (time.Duration, ms)
Millisecond == 1
Second == 1000 * Millisecond
Minute == 60 * Second
Hour == 60 * Minute

\* ------------------------------------------------------- program constants
attempts == 4
pauseBetweenAttempts == 5

JobFrequencyDaily == "daily"
JobFrequencyWeekly == "weekly"
JobStateActive == "active"
JobStateError == "error"
JobStateNew == "new"
JobStatePaused == "pause"
JobTypeCopyFollowers == "copy-followers"
JobTypeCopyFollowing == "copy-following"

IsValidJobFrequency(jobFreq) == jobFreq \in {JobFrequencyDaily, JobFrequencyWeekly}

IsValidJobState(s) == s \in {JobStateActive, JobStateError, JobStateNew, JobStatePaused}

\* ---------------------------------------------------------------- nullable
Nil == << >>
Some(x) == << x >>

JobIDs == 1 .. NumJobs

\* ------------------------------------------------ the remote account proxy
\* The proxy's pagination token after k pages of a list.
CursorStr(k) == "c" \o ToString(k)

RemoteLen(account) == IF account % 2 = 1 THEN LongList ELSE ShortList

\* The page a cursor designates: the first page when there is no cursor.
PageIndex(cursor) ==
    IF cursor = Nil \/ cursor = Some("")
    THEN 1
    ELSE 1 + (CHOOSE k \in 1 .. (LongList + ShortList) : CursorStr(k) = cursor[1])

UserBase(direction) == IF direction = "followers" THEN 100 ELSE 200

\* The users of page k of a list: three on the first page, two on the others;
\* one user appears on every page.
PageUsers(direction, k) ==
    IF k = 1
    THEN << UserBase(direction) + 10, UserBase(direction) + 1, UserBase(direction) + 2 >>
    ELSE << UserBase(direction) + 10 * k, UserBase(direction) + 1 >>

\* One page of the followers or of the following list of an account: the
\* list of an even account ends with an absent next, the list of an odd
\* account ends with an empty page whose next is the empty string.
RemotePage(direction, account, cursor) ==
    LET k == PageIndex(cursor)
        n == RemoteLen(account)
    IN  [ Users |-> IF k > n \/ (k = n /\ account % 2 = 1)
                    THEN << >>
                    ELSE PageUsers(direction, k),
          Next  |-> IF k < n THEN Some(CursorStr(k))
                    ELSE IF account % 2 = 1 /\ k = n THEN Some("") ELSE Nil ]

\* ------------------------------------------------------------------- state
VARIABLES
    now,        \* the clock: NOW() and time.Now()
    jobs,       \* the jobs table: job id -> row
    tables,     \* user_followers and user_following: table name -> set of rows
    events,     \* the jobs_events table, in insertion order
    ctxDone,    \* the context passed to StartCopying has been cancelled
    pc,         \* the worker's position
    delay,      \* StartCopying: the wait before the next iteration
    cj,         \* StartCopying: the job of this iteration (NoJob when nil)
    pollErr,    \* StartCopying: NextCopyJob returned an error in this iteration
    running,    \* the jobs whose RunCopyJob has been called and has not returned
    cursor,     \* RunCopyJob: cursor
    a,          \* RunCopyJob: the attempt counter of the loop
    done,       \* RunCopyJob: done
    res,        \* RunCopyJob: the page returned by the last fetch
    runErr,     \* the error returned by RunCopyJob (Nil when nil)
    runLog,     \* the fetcher and store calls made since the job was claimed
    iter,       \* iterations of the scheduler loop so far
    faults      \* disturbances still to come

vars == << now, jobs, tables, events, ctxDone, pc, delay, cj, pollErr, running,
           cursor, a, done, res, runErr, runLog, iter, faults >>

NoJob == [ ID |-> 0, Type |-> "",
           Metadata |-> [ Cursor |-> Nil, Frequency |-> "", UserID |-> 0 ] ]

NoPage == [ Users |-> << >>, Next |-> Nil ]

\* ------------------------------------------------------------ initial rows
\* The rows a jobs table holds when the worker starts: jobs of both types in
\* every state, due, not yet due and unscheduled, with and without a stored
\* cursor, with a valid, an invalid and a missing frequency, and one whose
\* metadata does not validate (userID 0).
JobRow(type, state, nextRun, cur, freq, validUser) ==
    [ job_type |-> type, state |-> state, next_run |-> nextRun, last_run |-> Nil,
      cursor |-> cur, frequency |-> freq, validUser |-> validUser ]

InitRows ==
    { JobRow(JobTypeCopyFollowers, JobStateNew, Some(0 - 2 * Minute), Nil, JobFrequencyDaily, TRUE),
      JobRow(JobTypeCopyFollowers, JobStateActive, Some(0 - Minute), Some(CursorStr(3)), JobFrequencyWeekly, TRUE),
      JobRow(JobTypeCopyFollowers, JobStateActive, Some(0 - 2 * Minute), Some(""), "", TRUE),
      JobRow(JobTypeCopyFollowing, JobStateNew, Some(0 - Minute), Nil, JobFrequencyWeekly, TRUE),
      JobRow(JobTypeCopyFollowing, JobStateActive, Some(0 - 2 * Minute), Some(CursorStr(1)), JobFrequencyDaily, TRUE),
      JobRow(JobTypeCopyFollowers, JobStateError, Some(0 - 2 * Minute), Some(CursorStr(1)), JobFrequencyDaily, TRUE),
      JobRow(JobTypeCopyFollowing, JobStatePaused, Some(0 - 2 * Minute), Nil, JobFrequencyDaily, TRUE),
      JobRow(JobTypeCopyFollowers, JobStateActive, Nil, Nil, JobFrequencyDaily, TRUE),
      JobRow(JobTypeCopyFollowing, JobStateActive, Some(30 * Second), Nil, JobFrequencyDaily, TRUE),
      JobRow(JobTypeCopyFollowers, JobStateActive, Some(0 - Minute), Nil, JobFrequencyDaily, FALSE) }

\* The row of job j: its metadata is JSON that decodes into a CopyJobMetadata
\* (decodes), and its userID is the account j, or 0 when it is invalid.
MakeJob(j, row) ==
    [ job_type |-> row.job_type, state |-> row.state, next_run |-> row.next_run,
      last_run |-> row.last_run,
      metadata |-> [ decodes |-> TRUE, cursor |-> row.cursor, frequency |-> row.frequency,
                     userID |-> IF row.validUser THEN j ELSE 0 ] ]

\* The unique checksum of a copy job: its type and the account it copies.
Checksum(row) == << row.job_type, row.metadata.userID >>

Init ==
    /\ now = 0
    /\ \E rows \in [JobIDs -> InitRows] : jobs = [ j \in JobIDs |-> MakeJob(j, rows[j]) ]
    /\ \A j, k \in JobIDs : j # k => Checksum(jobs[j]) # Checksum(jobs[k])
    /\ tables = [ t \in {"user_followers", "user_following"} |-> {} ]
    /\ events = << >>
    /\ ctxDone = FALSE
    /\ pc = "select"
    /\ delay = Millisecond
    /\ cj = NoJob
    /\ pollErr = FALSE
    /\ running = << >>
    /\ cursor = Nil
    /\ a = 0
    /\ done = FALSE
    /\ res = NoPage
    /\ runErr = Nil
    /\ runLog = << >>
    /\ iter = 0
    /\ faults = MaxFaults

\* ------------------------------------------------------------ store faults
\* The possible outcomes of n consecutive store calls: every call fails once
\* the context is cancelled; otherwise as many may fail as faults remain.
Failures(oks) == Cardinality({ i \in DOMAIN oks : ~oks[i] })

Outcomes(n) ==
    IF ctxDone
    THEN { [ i \in 1 .. n |-> FALSE ] }
    ELSE { oks \in [ 1 .. n -> BOOLEAN ] : Failures(oks) <= faults }

FaultsAfter(oks) == IF ctxDone THEN faults ELSE faults - Failures(oks)

\* ------------------------------------------------------------- error texts
\* err.Error() of the errors the worker handles; errors.Join separates the
\* texts of its non-nil arguments by a newline.
ErrDBFailureText == "db error"
ErrNoRetryText == "instaproxy fatal"
ErrDriverFailureText == "db error"
ErrDatabaseFailureText == "postgresql error\npgx"
ErrInvalidStatusText == "unexpected status code"
ErrHTTPFailureText == "request failed"

RECURSIVE Join(_)
Join(texts) ==
    IF texts = << >> THEN ""
    ELSE IF Len(texts) = 1 THEN texts[1]
    ELSE texts[1] \o "\n" \o Join(Tail(texts))

\* The error a fetch fails with: a transport failure once the context is
\* cancelled, an unexpected status of the proxy before.
FetchErrors == IF ctxDone THEN {ErrHTTPFailureText} ELSE {ErrInvalidStatusText}

\* fmt's %v of a *string: the address the pointer holds, or <nil>.
PtrText(p) == IF p = Nil THEN "<nil>" ELSE "0xc000012345"

\* A summary without the cursor.
CopiedTextNoCursor(n, next) == "Copied " \o ToString(n) \o " users."

\* fmt.Sprintf("Copied %d users. Next cursor: %v", len(res.Users), cursor).
CopiedText(n, next) == "Copied " \o ToString(n) \o " users. Next cursor: " \o PtrText(next)

\* --------------------------------------------------------- store operations
Event(jobID, msg) == [ job_id |-> jobID, event_msg |-> msg, ts |-> now ]

\* An InsertJobEvent that reports success and writes no row.
InsertJobEventLost(trail, jobID, msg, ok) == trail

\* InsertJobEvent: the audit trail after the call.
InsertJobEvent(trail, jobID, msg, ok) == IF ok THEN Append(trail, Event(jobID, msg)) ELSE trail

\* The WHERE clause without its condition on the state.
EligibleAnyState(row, jobType, t) ==
    /\ row.job_type = jobType
    /\ row.next_run # Nil
    /\ row.next_run[1] < t

\* The WHERE clause accepting the state error as well.
EligibleWithError(row, jobType, t) ==
    /\ row.job_type = jobType
    /\ row.next_run # Nil
    /\ row.next_run[1] < t
    /\ row.state \in {JobStateActive, JobStateNew, JobStateError}

\* The WHERE clause of NextJob's query, evaluated at time t.
Eligible(row, jobType, t) ==
    /\ row.job_type = jobType
    /\ row.next_run # Nil
    /\ row.next_run[1] < t
    /\ row.state \in {JobStateActive, JobStateNew}

\* NextJob: the ids the query can return (ORDER BY next_run ASC LIMIT 1 picks
\* any of the rows that share the earliest next_run); empty for no row.
NextJob(rows, jobType, t) ==
    { j \in DOMAIN rows :
        /\ Eligible(rows[j], jobType, t)
        /\ \A k \in DOMAIN rows :
              Eligible(rows[k], jobType, t) => rows[j].next_run[1] <= rows[k].next_run[1] }

\* A ScheduleJob whose interval is counted in minutes.
ScheduleJobMinutes(rows, jobID, nextRun, t) ==
    [ rows EXCEPT ![jobID].next_run = Some(t + (nextRun \div Minute) * Second),
                  ![jobID].state = JobStateActive ]

\* ScheduleJob: next_run = NOW() + INTERVAL '<whole seconds of nextRun> SECOND'.
ScheduleJob(rows, jobID, nextRun, t) ==
    [ rows EXCEPT ![jobID].next_run = Some(t + (nextRun \div Second) * Second),
                  ![jobID].state = JobStateActive ]

\* A TouchJob that marks the job active as well.
TouchJobActive(rows, jobID, t) ==
    [ rows EXCEPT ![jobID].last_run = Some(t), ![jobID].state = JobStateActive ]

\* TouchJob.
TouchJob(rows, jobID, t) == [ rows EXCEPT ![jobID].last_run = Some(t) ]

\* An UpdateJob that writes no column.
UpdateJobNoWrite(rows, jobID, state) == rows

\* UpdateJob with only ID and State set in its parameters.
UpdateJob(rows, jobID, state) ==
    IF IsValidJobState(state) THEN [ rows EXCEPT ![jobID].state = state ] ELSE rows

\* An upsert whose DO UPDATE sets first_seen as well.
UpsertOverwrite(table, accountID, userID, t) ==
    { r \in table : ~(r.account_id = accountID /\ r.user_id = userID) }
        \cup { [ account_id |-> accountID, user_id |-> userID,
                 first_seen |-> t, last_seen |-> t ] }

\* One INSERT ... ON CONFLICT (account_id, user_id) DO UPDATE.
Upsert(table, accountID, userID, t) ==
    IF \E r \in table : r.account_id = accountID /\ r.user_id = userID
    THEN { IF r.account_id = accountID /\ r.user_id = userID
           THEN [ r EXCEPT !.last_seen = t ] ELSE r : r \in table }
    ELSE table \cup { [ account_id |-> accountID, user_id |-> userID,
                        first_seen |-> t, last_seen |-> t ] }

RECURSIVE UpsertAll(_, _, _, _, _)
UpsertAll(table, accountID, users, n, t) ==
    IF n = 0 THEN table
    ELSE Upsert(UpsertAll(table, accountID, users, n - 1, t), accountID, users[n], t)

\* The table StoreCopyJobResults writes to.
TableOf(jobType) == IF jobType = JobTypeCopyFollowing THEN "user_following" ELSE "user_followers"

\* StoreCopyJobResults when its first s statements succeed: one upsert per
\* user, then the update of the job's cursor and state.  It returns an error
\* unless all Len(Users) + 1 statements succeed.
StoreTables(tabs, job, results, s, t) ==
    LET n == IF s < Len(results.Users) THEN s ELSE Len(results.Users)
    IN  [ tabs EXCEPT ![TableOf(job.Type)] =
              UpsertAll(tabs[TableOf(job.Type)], job.Metadata.UserID, results.Users, n, t) ]

\* A StoreCopyJobResults that updates the job before it upserts the users.
StoreJobsFirst(rows, job, results, s) ==
    IF s = 0 THEN rows
    ELSE [ rows EXCEPT ![job.ID].metadata.cursor = results.Next,
                       ![job.ID].state = JobStateActive ]

StoreJobs(rows, job, results, s) ==
    IF s <= Len(results.Users) THEN rows
    ELSE [ rows EXCEPT ![job.ID].metadata.cursor = results.Next,
                       ![job.ID].state = JobStateActive ]

\* The numbers of statements of StoreCopyJobResults that can succeed.
StoreOutcomes(results) ==
    IF ctxDone THEN {0}
    ELSE {Len(results.Users) + 1} \cup (IF faults > 0 THEN 0 .. Len(results.Users) ELSE {})

\* ---------------------------------------------------------------- NewCopyJob
\* models.NewCopyJob: whether the row's metadata validates, and the CopyJob
\* it yields.
\* A validation that accepts the userID 0.
NewCopyJobOKFromZero(row) ==
    /\ row.job_type \in {JobTypeCopyFollowers, JobTypeCopyFollowing}
    /\ row.metadata.decodes
    /\ row.metadata.userID >= 0

NewCopyJobOK(row) ==
    /\ row.job_type \in {JobTypeCopyFollowers, JobTypeCopyFollowing}
    /\ row.metadata.decodes
    /\ row.metadata.userID >= 1

\* A NewCopyJob that drops the stored cursor.
NewCopyJobFromStart(j, row) ==
    [ ID |-> j, Type |-> row.job_type,
      Metadata |-> [ Cursor    |-> Nil,
                     Frequency |-> IF IsValidJobFrequency(row.metadata.frequency)
                                   THEN row.metadata.frequency ELSE JobFrequencyDaily,
                     UserID    |-> row.metadata.userID ] ]

NewCopyJob(j, row) ==
    [ ID |-> j, Type |-> row.job_type,
      Metadata |-> [ Cursor    |-> IF row.metadata.cursor = Some("") THEN Nil ELSE row.metadata.cursor,
                     Frequency |-> IF IsValidJobFrequency(row.metadata.frequency)
                                   THEN row.metadata.frequency ELSE JobFrequencyDaily,
                     UserID    |-> row.metadata.userID ] ]

\* ------------------------------------------------------------- NextCopyJob
\* The results NextCopyJob can return at time t when its first and second
\* NextJob queries succeed as ok1 and ok2 say: an error, no job, or a job.
Failed == [ err |-> TRUE, job |-> NoJob ]
NotFound == [ err |-> FALSE, job |-> NoJob ]

Loaded(rows, j) == IF NewCopyJobOK(rows[j]) THEN [ err |-> FALSE, job |-> NewCopyJob(j, rows[j]) ] ELSE Failed

\* NextCopyJob asking for copy-following first.
NextCopyJobFollowingFirst(rows, t, ok1, ok2) ==
    LET first == NextJob(rows, JobTypeCopyFollowing, t)
        second == NextJob(rows, JobTypeCopyFollowers, t)
    IN  IF ~ok1 THEN {Failed}
        ELSE IF first # {} THEN { Loaded(rows, j) : j \in first }
        ELSE IF ~ok2 THEN {Failed}
        ELSE IF second # {} THEN { Loaded(rows, j) : j \in second }
        ELSE {NotFound}

NextCopyJob(rows, t, ok1, ok2) ==
    LET first == NextJob(rows, JobTypeCopyFollowers, t)
        second == NextJob(rows, JobTypeCopyFollowing, t)
    IN  IF ~ok1 THEN {Failed}
        ELSE IF first # {} THEN { Loaded(rows, j) : j \in first }
        ELSE IF ~ok2 THEN {Failed}
        ELSE IF second # {} THEN { Loaded(rows, j) : j \in second }
        ELSE {NotFound}

\* The store failures one call of NextCopyJob meets.
NextCopyJobFaults(rows, t, ok1, ok2) ==
    IF ~ok1 THEN 1
    ELSE IF NextJob(rows, JobTypeCopyFollowers, t) = {} /\ ~ok2 THEN 1 ELSE 0

\* rand.IntN(n): a value of 0 .. n-1; the smallest ones and the largest are
\* explored.
IntN(n) == { r \in 0 .. (n - 1) : r < MaxDraws - 1 \/ r = n - 1 }

\* randDuration: the values from + rand.IntN(to - from) can take.
randDuration(from, to) == { from + r : r \in IntN(to - from) }

\* A runner that returns nil when a store write fails.
StoreFailureSwallowed(text) == Nil

\* errors.Join(ErrDBFailure, err): what RunCopyJob returns when
\* StoreCopyJobResults or ScheduleJob fails with err.
StoreFailure(text) == Some(Join(<< ErrDBFailureText, text >>))

Call(op, ok, cur, next, d) == [ op |-> op, ok |-> ok, cursor |-> cur, next |-> next, delay |-> d ]

\* ------------------------------------------------------------ StartCopying
\* A loop that would not wait for RunCopyJob to return.
TimerReadyDuringRun == pc \in {"select", "fetch", "pause"}

\* The select of the loop takes its timer branch only while the worker waits
\* in the select.
TimerReady == pc = "select"

\* A loop that sets its delay only when NextCopyJob returned no error.
DelayAfterOK(r, d) == IF r.err THEN d ELSE Minute

\* delay = time.Minute: the wait of the next select after NextCopyJob
\* returned r, the wait of this one having been d.
DelayAfter(r, d) == Minute

\* case <-time.After(delay): the wait ends, NextCopyJob is called and the
\* switch on its result is taken up to the call of TouchJob.
Poll(limit) ==
    /\ TimerReady
    /\ iter < limit
    /\ iter' = iter + 1
    /\ now' = now + delay
    /\ \E oks \in Outcomes(2) :
         /\ faults' = IF ctxDone THEN faults ELSE faults - NextCopyJobFaults(jobs, now', oks[1], oks[2])
         /\ \E r \in NextCopyJob(jobs, now', oks[1], oks[2]) :
              /\ delay' = DelayAfter(r, delay)
              /\ cj' = r.job
              /\ pollErr' = r.err
              /\ pc' = IF r.err \/ r.job = NoJob THEN "select" ELSE "touch"
    /\ runLog' = << >>
    /\ runErr' = Nil
    /\ UNCHANGED << jobs, tables, events, ctxDone, running, cursor, a, done, res >>

Iterate == Poll(MaxIter)

\* A loop that runs the job whether or not TouchJob succeeded.
AfterTouchIgnored(rows, job, t, ok) ==
    [ jobs |-> IF ok THEN TouchJob(rows, job.ID, t) ELSE rows, pc |-> "pickup", cj |-> job ]

\* case w.db.TouchJob(ctx, job.ID) != nil: the iteration ends; default: the
\* runner is called with the job.
AfterTouch(rows, job, t, ok) ==
    IF ok
    THEN [ jobs |-> TouchJob(rows, job.ID, t), pc |-> "pickup", cj |-> job ]
    ELSE [ jobs |-> rows, pc |-> "select", cj |-> NoJob ]

\* case w.db.TouchJob(ctx, job.ID) != nil, and the default case up to the
\* call of RunCopyJob.
Touch ==
    /\ pc = "touch"
    /\ \E oks \in Outcomes(1) :
         /\ faults' = FaultsAfter(oks)
         /\ runLog' = Append(runLog, Call("TouchJob", oks[1], Nil, Nil, 0))
         /\ jobs' = AfterTouch(jobs, cj, now, oks[1]).jobs
         /\ pc' = AfterTouch(jobs, cj, now, oks[1]).pc
         /\ cj' = AfterTouch(jobs, cj, now, oks[1]).cj
         /\ running' = IF pc' = "pickup" THEN Append(running, cj.ID) ELSE running
    /\ UNCHANGED << now, tables, events, ctxDone, delay, pollErr, cursor, a, done, res, runErr, iter >>

\* case <-ctx.Done().
Exit ==
    /\ pc = "select"
    /\ ctxDone
    /\ pc' = "exited"
    /\ UNCHANGED << now, jobs, tables, events, ctxDone, delay, cj, pollErr, running, cursor,
                    a, done, res, runErr, runLog, iter, faults >>

\* ------------------------------------------------------------- RunCopyJob
\* A runner that returns when an audit event cannot be appended.
AfterEventFatal(ok, then) == IF ok THEN then ELSE "returned"

\* if err := w.db.InsertJobEvent(...); err != nil { w.logger.Error(...) }:
\* the position of the runner after the call, whose failure is only logged.
AfterEvent(ok, then) == then

\* The in-flight invocations once the invocation for jobID has returned.
Returned(jobID) == SelectSeq(running, LAMBDA id : id # jobID)

\* The pickup event and the initialisation of cursor and done.
Pickup ==
    /\ pc = "pickup"
    /\ \E oks \in Outcomes(1) :
         /\ faults' = FaultsAfter(oks)
         /\ events' = InsertJobEvent(events, cj.ID, "job picked up for execution", oks[1])
         /\ runLog' = Append(runLog, Call("InsertJobEvent", oks[1], Nil, Nil, 0))
         /\ pc' = AfterEvent(oks[1], "fetch")
    /\ cursor' = cj.Metadata.Cursor
    /\ done' = FALSE
    /\ a' = 0
    /\ res' = NoPage
    /\ UNCHANGED << now, jobs, tables, ctxDone, delay, cj, pollErr, running, runErr, iter >>

\* The method of the proxy client the runner calls for a job of a type.
FetchMethod(jobType) == "GetFollowers"

\* The list a method of the proxy client requests.
Endpoint(method) == IF method = "GetFollowers" THEN "followers" ELSE "following"

\* A runner that does not advance its cursor.
CursorKept(cur, page) == cur

\* The cursor the runner keeps after a fetch.
CursorAfter(cur, page) == page.Next

\* One fetch that succeeds: cursor = res.Next.
FetchOK ==
    /\ pc = "fetch"
    /\ ~ctxDone
    /\ res' = RemotePage(Endpoint(FetchMethod(cj.Type)), cj.Metadata.UserID, cursor)
    /\ cursor' = CursorAfter(cursor, res')
    /\ runLog' = Append(runLog, Call(FetchMethod(cj.Type), TRUE, cursor, res'.Next, 0))
    /\ pc' = "persist"
    /\ UNCHANGED << now, jobs, tables, events, ctxDone, delay, cj, pollErr, running, a, done,
                    runErr, iter, faults >>

\* One fetch that fails: the job is marked, the error is logged and the run
\* returns the joined errors.
FetchFail ==
    /\ pc = "fetch"
    /\ \E text \in FetchErrors, oks \in Outcomes(2) :
         /\ faults' = FaultsAfter(oks)
         /\ jobs' = IF oks[1] THEN UpdateJob(jobs, cj.ID, JobStateError) ELSE jobs
         /\ events' = InsertJobEvent(events, cj.ID, text, oks[2])
         /\ runLog' = runLog \o << Call(FetchMethod(cj.Type), FALSE, cursor, Nil, 0),
                                   Call("UpdateJob", oks[1], Nil, Nil, 0),
                                   Call("InsertJobEvent", oks[2], Nil, Nil, 0) >>
         /\ runErr' = Some(Join( (IF oks[1] THEN << >> ELSE << ErrDriverFailureText, ErrDatabaseFailureText >>)
                                 \o (IF oks[2] THEN << >> ELSE << ErrDatabaseFailureText >>)
                                 \o << text, ErrNoRetryText >> ))
    /\ pc' = "returned"
    /\ running' = Returned(cj.ID)
    /\ UNCHANGED << now, tables, ctxDone, delay, cj, pollErr, cursor, a, done, res, iter >>

\* A loop that makes one attempt more.
LoopNextOneMore(attempt) == IF attempt < attempts THEN "fetch" ELSE "finish"

\* for a := range attempts: the position after attempt a.
LoopNext(attempt) == IF attempt + 1 < attempts THEN "fetch" ELSE "finish"

\* case a != attempts: whether the runner pauses after attempt a.
PauseAfter(attempt) == attempt # attempts

\* StoreCopyJobResults, the page's event and the switch that ends the attempt.
Persist ==
    /\ pc = "persist"
    /\ \E s \in StoreOutcomes(res) :
         /\ tables' = StoreTables(tables, cj, res, s, now)
         /\ jobs' = StoreJobs(jobs, cj, res, s)
         /\ IF s <= Len(res.Users)
            THEN /\ faults' = IF ctxDone THEN faults ELSE faults - 1
                 /\ runErr' = StoreFailure(ErrDatabaseFailureText)
                 /\ runLog' = Append(runLog, Call("StoreCopyJobResults", FALSE, Nil, res.Next, 0))
                 /\ pc' = "returned"
                 /\ running' = Returned(cj.ID)
                 /\ UNCHANGED << events, done, a >>
            ELSE /\ \E oks \in Outcomes(1) :
                      /\ faults' = FaultsAfter(oks)
                      /\ events' = InsertJobEvent(events, cj.ID, CopiedText(Len(res.Users), cursor), oks[1])
                      /\ runLog' = runLog \o << Call("StoreCopyJobResults", TRUE, Nil, res.Next, 0),
                                                Call("InsertJobEvent", oks[1], Nil, Nil, 0) >>
                      /\ IF cursor = Nil \/ cursor = Some("")
                         THEN /\ done' = TRUE
                              /\ pc' = AfterEvent(oks[1], "finish")
                              /\ a' = a
                         ELSE /\ done' = done
                              /\ IF PauseAfter(a)
                                 THEN pc' = AfterEvent(oks[1], "pause") /\ a' = a
                                 ELSE pc' = AfterEvent(oks[1], LoopNext(a)) /\ a' = a + 1
                 /\ runErr' = runErr
                 /\ running' = running
    /\ UNCHANGED << now, ctxDone, delay, cj, pollErr, cursor, res, iter >>

\* time.Sleep(pauseBetweenAttempts * time.Second), then the next attempt.
Pause ==
    /\ pc = "pause"
    /\ now' = now + pauseBetweenAttempts * Second
    /\ runLog' = Append(runLog, Call("Sleep", TRUE, Nil, Nil, pauseBetweenAttempts * Second))
    /\ a' = a + 1
    /\ pc' = LoopNext(a)
    /\ UNCHANGED << jobs, tables, events, ctxDone, delay, cj, pollErr, running, cursor, done,
                    res, runErr, iter, faults >>

\* A switch on the frequency without its weekly case.
CompletedDelayNoWeekly(frequency, other) ==
    IF frequency = JobFrequencyDaily THEN Hour * 24 ELSE other

\* The delay of a completed sync for a frequency; other is the delay kept
\* when the frequency is neither daily nor weekly.
CompletedDelay(frequency, other) ==
    IF frequency = JobFrequencyDaily THEN Hour * 24
    ELSE IF frequency = JobFrequencyWeekly THEN Hour * 24 * 7
    ELSE other

\* A wider jitter.
IncompleteDelaysWide == { Minute * d : d \in randDuration(20, 40) }

\* The delays an incomplete run can be rescheduled with.
IncompleteDelays == { Minute * d : d \in randDuration(20, 30) }

\* The end of RunCopyJob: the delay, the completion event and ScheduleJob.
Finish ==
    /\ pc = "finish"
    /\ \E freq \in IncompleteDelays, oks \in Outcomes(2) :
         LET d == IF done THEN CompletedDelay(cj.Metadata.Frequency, freq) ELSE freq
             okEvent == oks[1] \/ ~done
         IN  /\ faults' = IF ctxDone THEN faults
                          ELSE faults - ((IF okEvent THEN 0 ELSE 1) + (IF oks[2] THEN 0 ELSE 1))
             /\ events' = IF done THEN InsertJobEvent(events, cj.ID, "Sync completed", oks[1]) ELSE events
             /\ jobs' = IF oks[2] THEN ScheduleJob(jobs, cj.ID, d, now) ELSE jobs
             /\ runLog' = runLog
                          \o (IF done THEN << Call("InsertJobEvent", oks[1], Nil, Nil, 0) >> ELSE << >>)
                          \o << Call("ScheduleJob", oks[2], Nil, Nil, d) >>
             /\ runErr' = IF oks[2] THEN Nil ELSE StoreFailure(ErrDatabaseFailureText)
    /\ pc' = "returned"
    /\ running' = Returned(cj.ID)
    /\ UNCHANGED << now, tables, ctxDone, delay, cj, pollErr, cursor, a, done, res, iter >>

\* Sleeps counted in seconds.
PostJobSleepsSeconds == { Second * d : d \in randDuration(10, 15) }

\* The sleeps the loop can take after a job.
PostJobSleeps == { Minute * d : d \in randDuration(10, 15) }

\* A loop that returns when a run fails.
LoopAfterFatal(err) == IF err = Nil THEN "select" ELSE "exited"

\* The position of the loop after a run that returned err: the error is
\* logged and the for loop goes back to its select.
LoopAfter(err) == "select"

\* StartCopying after RunCopyJob has returned: the error's event, then the
\* sleep before the loop goes back to its select.
AfterRun ==
    /\ pc = "returned"
    /\ \E oks \in Outcomes(1), sleep \in PostJobSleeps :
         /\ faults' = IF runErr = Nil THEN faults ELSE FaultsAfter(oks)
         /\ events' = IF runErr = Nil THEN events ELSE InsertJobEvent(events, cj.ID, runErr[1], oks[1])
         /\ now' = now + sleep
    /\ pc' = LoopAfter(runErr)
    /\ cj' = NoJob
    /\ runLog' = << >>
    /\ UNCHANGED << jobs, tables, ctxDone, delay, pollErr, running, cursor, a, done, res,
                    runErr, iter >>

\* ------------------------------------------------------------- environment
\* The context is cancelled.
Cancel ==
    /\ ~ctxDone
    /\ pc # "exited"
    /\ ctxDone' = TRUE
    /\ UNCHANGED << now, jobs, tables, events, pc, delay, cj, pollErr, running, cursor, a,
                    done, res, runErr, runLog, iter, faults >>

\* An operator resumes a failed or paused job (Database.UpdateJob with the
\* state active), from outside the worker.
ResumeJob ==
    /\ faults > 0
    /\ pc # "exited"
    /\ faults' = faults - 1
    /\ \E j \in JobIDs :
         /\ jobs[j].state \in {JobStateError, JobStatePaused}
         /\ jobs' = UpdateJob(jobs, j, JobStateActive)
    /\ UNCHANGED << now, tables, events, ctxDone, pc, delay, cj, pollErr, running, cursor,
                    a, done, res, runErr, runLog, iter >>

Next ==
    \/ Iterate
    \/ Touch
    \/ Exit
    \/ Pickup
    \/ FetchOK
    \/ FetchFail
    \/ Persist
    \/ Pause
    \/ Finish
    \/ AfterRun
    \/ Cancel
    \/ ResumeJob

Spec == Init /\ [][Next]_vars

\* The steps of RunCopyJob: a call of the runner goes on until it returns
\* (its sleeps end, and the calls it makes return).
RunStep == Pickup \/ FetchOK \/ FetchFail \/ Persist \/ Pause \/ Finish

FairSpec == Spec /\ WF_vars(RunStep)

\* --------------------------------------------- syncs without disturbance
\* Jobs that are due when the worker starts and have no page stored: of
\* both types, with no cursor or an empty one.
ResumeRows ==
    { JobRow(type, JobStateActive, Some(0 - d * Minute), cur, JobFrequencyDaily, TRUE) :
        type \in {JobTypeCopyFollowers, JobTypeCopyFollowing},
        d \in {1, 2},
        cur \in {Nil, Some("")} }

ResumeInit ==
    /\ now = 0
    /\ \E rows \in [JobIDs -> ResumeRows] : jobs = [ j \in JobIDs |-> MakeJob(j, rows[j]) ]
    /\ tables = [ t \in {"user_followers", "user_following"} |-> {} ]
    /\ events = << >>
    /\ ctxDone = FALSE
    /\ pc = "select"
    /\ delay = Millisecond
    /\ cj = NoJob
    /\ pollErr = FALSE
    /\ running = << >>
    /\ cursor = Nil
    /\ a = 0
    /\ done = FALSE
    /\ res = NoPage
    /\ runErr = Nil
    /\ runLog = << >>
    /\ iter = 0
    /\ faults = 0

\* One iteration of the loop, of at most MaxRounds.
Round == Poll(MaxRounds)

\* The worker when no store call and no fetch fails and the context stays
\* live.
ResumeNext ==
    \/ Round
    \/ Touch
    \/ Pickup
    \/ FetchOK
    \/ Persist
    \/ Pause
    \/ Finish
    \/ AfterRun

ResumeSpec == ResumeInit /\ [][ResumeNext]_vars

\* ------------------------------------------- StoreCopyJobResults on its own
\* One call of StoreCopyJobResults for a job of the table and a page the
\* runner gets for it, at the current time.
StorePage ==
    /\ Len(runLog) < MaxStores
    /\ \E j \in JobIDs, c \in {Nil, Some(CursorStr(1))} :
         /\ NewCopyJobOK(jobs[j])
         /\ cj' = NewCopyJob(j, jobs[j])
         /\ res' = RemotePage(Endpoint(FetchMethod(jobs[j].job_type)), jobs[j].metadata.userID, c)
         /\ \E s \in StoreOutcomes(res') :
              /\ tables' = StoreTables(tables, cj', res', s, now)
              /\ jobs' = StoreJobs(jobs, cj', res', s)
              /\ faults' = IF s <= Len(res'.Users) THEN faults - 1 ELSE faults
              /\ runLog' = Append(runLog, Call("StoreCopyJobResults", s > Len(res'.Users), c, res'.Next, 0))
    /\ UNCHANGED << now, events, ctxDone, pc, delay, pollErr, running, cursor, a, done,
                    runErr, iter >>

\* A minute passes.
Tick ==
    /\ now < MaxTicks * Minute
    /\ now' = now + Minute
    /\ UNCHANGED << jobs, tables, events, ctxDone, pc, delay, cj, pollErr, running, cursor,
                    a, done, res, runErr, runLog, iter, faults >>

StoreNext ==
    \/ StorePage
    \/ Tick

StoreSpec == Init /\ [][StoreNext]_vars

\* ---------------------------------------------------- NewCopyJob on its own
\* The jobs NewCopyJob is given: of a copy type or of another, with metadata
\* that does not decode or that decodes with any userID, frequency and
\* cursor.
LoadRows ==
    { [ job_type |-> type, state |-> JobStateActive, next_run |-> Nil, last_run |-> Nil,
        metadata |-> [ decodes |-> dec, cursor |-> cur, frequency |-> freq, userID |-> uid ] ] :
        type \in {JobTypeCopyFollowers, JobTypeCopyFollowing, "refresh"},
        dec \in BOOLEAN,
        cur \in {Nil, Some(""), Some(CursorStr(1))},
        freq \in {JobFrequencyDaily, JobFrequencyWeekly, "", "monthly"},
        uid \in (0 - 1) .. NumJobs }

LoadInit ==
    /\ now = 0
    /\ \E row \in LoadRows : jobs = [ j \in JobIDs |-> row ]
    /\ tables = [ t \in {"user_followers", "user_following"} |-> {} ]
    /\ events = << >>
    /\ ctxDone = FALSE
    /\ pc = "select"
    /\ delay = Millisecond
    /\ cj = NoJob
    /\ pollErr = FALSE
    /\ running = << >>
    /\ cursor = Nil
    /\ a = 0
    /\ done = FALSE
    /\ res = NoPage
    /\ runErr = Nil
    /\ runLog = << >>
    /\ iter = 0
    /\ faults = MaxFaults

\* models.NewCopyJob is called with job j.
LoadJob ==
    /\ runLog = << >>
    /\ \E j \in JobIDs :
         /\ cj' = Loaded(jobs, j).job
         /\ pollErr' = Loaded(jobs, j).err
         /\ runLog' = << Call("NewCopyJob", ~Loaded(jobs, j).err, Nil, Nil, j) >>
    /\ UNCHANGED << now, jobs, tables, events, ctxDone, pc, delay, running, cursor, a,
                    done, res, runErr, iter, faults >>

LoadSpec == LoadInit /\ [][LoadJob]_vars

\* ------------------------------------------------------- NextJob on its own
\* One caller invokes NextJob for a type: the query runs at the current time
\* and its row, if any, is handed to the caller.
CallNextJob ==
    /\ Len(runLog) < MaxCallers
    /\ \E jobType \in {JobTypeCopyFollowers, JobTypeCopyFollowing}, oks \in Outcomes(1) :
         /\ faults' = FaultsAfter(oks)
         /\ runLog' = Append(runLog, Call("NextJob", oks[1], Nil, Nil, 0))
         /\ IF oks[1] /\ NextJob(jobs, jobType, now) # {}
            THEN \E j \in NextJob(jobs, jobType, now) : running' = Append(running, j)
            ELSE running' = running
    /\ UNCHANGED << now, jobs, tables, events, ctxDone, pc, delay, cj, pollErr, cursor, a,
                    done, res, runErr, iter >>

ClaimNext ==
    \/ CallNextJob
    \/ Tick

ClaimSpec == Init /\ [][ClaimNext]_vars

\* ================================================================== claims
IsFetch(c) == c.op \in {"GetFollowers", "GetFollowing"}

\* The fetches of the current run, in order.
Fetches == SelectSeq(runLog, IsFetch)

\* The users of one direction of an account's connections, over all pages.
RemoteUsers(direction, account) ==
    UNION { { RemotePage(direction, account, c).Users[i] :
                i \in DOMAIN RemotePage(direction, account, c).Users } :
            c \in {Nil} \cup { Some(CursorStr(k)) : k \in 1 .. (LongList + ShortList) } }

ExpectedMethod(jobType) == IF jobType = JobTypeCopyFollowing THEN "GetFollowing" ELSE "GetFollowers"

DirectionOfTable(t) == IF t = "user_following" THEN "following" ELSE "followers"

\* C1: every fetch of a run asks for the list of the job's type (followers
\* for copy-followers, following for copy-following), so every row of a
\* direction's table is a user the proxy lists in that direction.
C1_FetchesJobDirection ==
    /\ \A i \in DOMAIN runLog : IsFetch(runLog[i]) => runLog[i].op = ExpectedMethod(cj.Type)
    /\ \A t \in DOMAIN tables : \A r \in tables[t] :
          r.user_id \in RemoteUsers(DirectionOfTable(t), r.account_id)

\* C2: at most one invocation of RunCopyJob is in flight, and none is in
\* flight when a job has just been claimed.
C2_OneJobAtATime ==
    /\ Len(running) <= 1
    /\ pc = "touch" => running = << >>

\* A second job is being run after the first one's run has returned.
C2_Witness ==
    /\ iter = 2
    /\ pc = "fetch"
    /\ running = << cj.ID >>
    /\ \E i \in DOMAIN events : events[i].job_id # cj.ID

\* C3: the job NextCopyJob returns is a copy-following job only when no
\* copy-followers job is eligible, and when one is eligible and no error is
\* returned, the job returned is an eligible copy-followers job with the
\* earliest next_run.
C3_FollowersFirst ==
    [][ (pc = "select" /\ iter' = iter + 1) =>
          LET F == NextJob(jobs, JobTypeCopyFollowers, now')
          IN  /\ cj'.Type = JobTypeCopyFollowing => F = {}
              /\ (F # {} /\ ~pollErr') => cj'.ID \in F ]_vars

\* A copy-followers job has been claimed while a copy-following job is due.
C3_Witness ==
    /\ pc = "touch"
    /\ cj.Type = JobTypeCopyFollowers
    /\ NextJob(jobs, JobTypeCopyFollowing, now) # {}

Qualifies(j, jobType) ==
    /\ jobs[j].job_type = jobType
    /\ jobs[j].state \in {"active", "new"}
    /\ jobs[j].next_run # Nil
    /\ jobs[j].next_run[1] < now

\* C4: NextJob returns only jobs of the requested type in state active or
\* new whose next_run is set and in the past, of these one with the earliest
\* next_run, and it returns one whenever one qualifies.
C4_NextJobEligibleEarliest ==
    \A jobType \in {JobTypeCopyFollowers, JobTypeCopyFollowing} :
        LET R == NextJob(jobs, jobType, now)
            Q == { j \in JobIDs : Qualifies(j, jobType) }
        IN  /\ R \subseteq Q
            /\ \A j \in R, k \in Q : jobs[j].next_run[1] <= jobs[k].next_run[1]
            /\ Q # {} => R # {}

\* The job claimed is the earlier of two due jobs of its type.
C4_Witness ==
    /\ pc = "touch"
    /\ \E k \in JobIDs :
          /\ k # cj.ID
          /\ Qualifies(k, cj.Type)
          /\ jobs[k].next_run[1] > jobs[cj.ID].next_run[1]

FetchesIn(log) == SelectSeq(log, IsFetch)

LoggedIn(log, op) == SelectSeq(log, LAMBDA c : c.op = op)

\* The pages of the current run that StoreCopyJobResults persisted in full.
Persisted == SelectSeq(runLog, LAMBDA c : c.op = "StoreCopyJobResults" /\ c.ok)

Last(seq) == seq[Len(seq)]

Empty(next) == next = Nil \/ next = Some("")

\* C5: the step in which a fetch fails ends the run with an error, without a
\* call of ScheduleJob and without a change of next_run or of the stored
\* cursor, which is the next of the last page persisted in this run (or the
\* cursor loaded at pickup if none was), and the job is in state error when
\* the UpdateJob write succeeded.
C5_FetchFailureAborts ==
    [][ (pc = "fetch" /\ pc' = "returned") =>
          /\ runErr' # Nil
          /\ ~Last(FetchesIn(runLog')).ok
          /\ Len(FetchesIn(runLog')) = Len(Fetches) + 1
          /\ LoggedIn(runLog', "ScheduleJob") = << >>
          /\ jobs'[cj.ID].next_run = jobs[cj.ID].next_run
          /\ jobs'[cj.ID].metadata.cursor = jobs[cj.ID].metadata.cursor
          /\ IF Persisted = << >>
             THEN (IF Empty(jobs'[cj.ID].metadata.cursor) THEN Nil ELSE jobs'[cj.ID].metadata.cursor)
                     = cj.Metadata.Cursor
             ELSE jobs'[cj.ID].metadata.cursor = Last(Persisted).next
          /\ LoggedIn(runLog', "UpdateJob")[1].ok => jobs'[cj.ID].state = "error" ]_vars

\* A run has been aborted by the failure of its third fetch, after two pages
\* were persisted.
C5_Witness ==
    /\ pc = "returned"
    /\ Len(Fetches) = 3
    /\ ~Last(Fetches).ok
    /\ Len(Persisted) = 2
    /\ jobs[cj.ID].state = "error"
    /\ jobs[cj.ID].metadata.cursor = Last(Persisted).next

\* C6: no step of the worker claims a job that is in state error or changes
\* any field of its row.
C6_ErrorJobLeftAlone ==
    [][ \A j \in JobIDs :
          (jobs[j].state = "error" /\ (pc' # pc \/ iter' # iter)) =>
              /\ jobs'[j] = jobs[j]
              /\ cj' # cj => cj'.ID # j ]_vars

\* A job claimed in the first iteration, whose run was aborted by a fetch
\* failure, is due and in state error, and the second iteration of the loop
\* has found no job.
C6_Witness ==
    /\ iter = 2
    /\ pc = "select"
    /\ ~pollErr
    /\ cj = NoJob
    /\ \E j \in JobIDs :
          /\ jobs[j].state = "error"
          /\ jobs[j].last_run = Some(Millisecond)
          /\ jobs[j].next_run # Nil
          /\ jobs[j].next_run[1] < now
          /\ \E i \in DOMAIN events : events[i].event_msg = ErrInvalidStatusText
          /\ \A i \in DOMAIN events : events[i].job_id = j

\* C7: the step that ends a run whose sync completed calls ScheduleJob with
\* 24 hours for a daily job and 7 x 24 hours for a weekly one, and when the
\* call succeeds the job is active with next_run = now + that delay.
C7_CompletedSyncDelay ==
    [][ (pc = "finish" /\ pc' = "returned" /\ done) =>
          LET call == Last(runLog')
          IN  /\ call.op = "ScheduleJob"
              /\ cj.Metadata.Frequency \in {"daily", "weekly"}
              /\ cj.Metadata.Frequency = "daily" => call.delay = 24 * 60 * 60 * 1000
              /\ cj.Metadata.Frequency = "weekly" => call.delay = 7 * 24 * 60 * 60 * 1000
              /\ call.ok => /\ jobs'[cj.ID].state = "active"
                            /\ jobs'[cj.ID].next_run = Some(now + call.delay) ]_vars

\* A weekly job has completed its sync and has been rescheduled a week ahead.
C7_Witness ==
    /\ pc = "returned"
    /\ done
    /\ runErr = Nil
    /\ cj.Metadata.Frequency = "weekly"
    /\ jobs[cj.ID].state = "active"
    /\ jobs[cj.ID].next_run = Some(now + 7 * 24 * 60 * 60 * 1000)

\* C8: the step that ends a run whose sync did not complete comes after 4
\* fetches, the last page having a next cursor; it calls ScheduleJob with a
\* delay of 20 to 30 minutes, and when the call succeeds the job is active
\* and its stored cursor is that page's next.
C8_IncompleteRunDelay ==
    [][ (pc = "finish" /\ pc' = "returned" /\ ~done) =>
          LET call == Last(runLog')
          IN  /\ call.op = "ScheduleJob"
              /\ Len(Fetches) = 4
              /\ ~Empty(res.Next)
              /\ call.delay >= 20 * 60 * 1000
              /\ call.delay <= 30 * 60 * 1000
              /\ call.ok => /\ jobs'[cj.ID].state = "active"
                            /\ jobs'[cj.ID].metadata.cursor = res.Next ]_vars

\* A run has used its 4 attempts, pages remain, and the job is rescheduled.
C8_Witness ==
    /\ pc = "returned"
    /\ ~done
    /\ runErr = Nil
    /\ Len(Fetches) = 4
    /\ ~Empty(res.Next)
    /\ jobs[cj.ID].state = "active"
    /\ jobs[cj.ID].metadata.cursor = res.Next
    /\ jobs[cj.ID].next_run[1] - now \in { 20 * 60 * 1000, 29 * 60 * 1000 }

\* C9: a run makes at most 4 fetches, every fetch but the last returned a
\* page with a non-empty next, the sync is complete at the end of the loop
\* exactly when the last page's next is absent or empty, and every run that
\* starts returns.
C9_BoundedFetches ==
    /\ [](/\ Len(Fetches) <= 4
          /\ \A i \in 1 .. (Len(Fetches) - 1) : Fetches[i].ok /\ ~Empty(Fetches[i].next)
          /\ pc = "finish" => (done <=> Empty(Last(Fetches).next)))
    /\ (pc = "pickup" ~> pc = "returned")

\* A page with no user and an empty next has completed the sync at the
\* second attempt.
C9_Witness ==
    /\ pc = "finish"
    /\ done
    /\ Len(Fetches) = 2
    /\ res.Users = << >>
    /\ Empty(res.Next)

\* C10: the first fetch of a run is called with the cursor loaded into the
\* CopyJob, and every later fetch with the next of the fetch before it.
C10_CursorRoundTrip ==
    Fetches # << >> =>
        /\ Fetches[1].cursor = cj.Metadata.Cursor
        /\ \A i \in 2 .. Len(Fetches) : Fetches[i].cursor = Fetches[i - 1].next

\* A run resumed from a stored cursor has made three fetches.
C10_Witness ==
    /\ Len(Fetches) = 3
    /\ Fetches[1].cursor # Nil
    /\ Fetches[3].cursor = Fetches[2].next
    /\ Fetches[3].cursor # Fetches[2].cursor

\* The page the fetch recorded as call c of the current run returned.
PageOf(c) == RemotePage(Endpoint(c.op), cj.Metadata.UserID, c.cursor)

\* The messages of the audit events appended for the job in hand since it
\* was claimed (TouchJob set last_run at the claim).
RunEvents ==
    LET mine == SelectSeq(events, LAMBDA e : /\ e.job_id = cj.ID
                                             /\ jobs[cj.ID].last_run # Nil
                                             /\ e.ts >= jobs[cj.ID].last_run[1])
    IN  [ i \in DOMAIN mine |-> mine[i].event_msg ]

\* A run of a daily job without a stored cursor has returned after two
\* fetches, a page of 3 users with a next and a page of 2 users without one,
\* and no call of the run has failed.
TwoPageRun ==
    /\ pc = "returned"
    /\ cj.Metadata.Cursor = Nil
    /\ cj.Metadata.Frequency = JobFrequencyDaily
    /\ \A i \in DOMAIN runLog : runLog[i].ok
    /\ Len(Fetches) = 2
    /\ Len(PageOf(Fetches[1]).Users) = 3 /\ ~Empty(Fetches[1].next)
    /\ Len(PageOf(Fetches[2]).Users) = 2 /\ Fetches[2].next = Nil

\* C11: after such a run every user of the two pages (5 upserts) has a row
\* in the job's table, the stored cursor is null, the job is active with
\* next_run = now + 24 hours, and the run's audit events are the pickup
\* event, the summaries of the two pages and the completion event.
C11_TwoPageScenario ==
    TwoPageRun =>
        /\ Len(Persisted) = 2
        /\ \A i \in 1 .. 2 : \A u \in DOMAIN PageOf(Fetches[i]).Users :
              \E r \in tables[TableOf(cj.Type)] :
                  /\ r.account_id = cj.Metadata.UserID
                  /\ r.user_id = PageOf(Fetches[i]).Users[u]
        /\ jobs[cj.ID].metadata.cursor = Nil
        /\ jobs[cj.ID].state = JobStateActive
        /\ jobs[cj.ID].next_run = Some(now + 24 * Hour)
        /\ runErr = Nil
        /\ RunEvents = << "job picked up for execution",
                          CopiedText(3, Fetches[1].next),
                          CopiedText(2, Nil),
                          "Sync completed" >>

\* The scenario's run has returned and its four events are in the trail.
C11_Witness ==
    /\ TwoPageRun
    /\ Len(RunEvents) = 4
    /\ jobs[cj.ID].metadata.cursor = Nil
    /\ Cardinality(tables[TableOf(cj.Type)]) = 4

\* C12: the step in which StoreCopyJobResults fails returns from the run
\* with an error wrapping ErrDBFailure, the fetches made so far being the
\* last and ScheduleJob not being called; the step in which ScheduleJob
\* fails returns from the run with an error wrapping ErrDBFailure.
C12_StoreFailureSurfaced ==
    [][ /\ (/\ pc = "persist"
            /\ Last(runLog').op = "StoreCopyJobResults"
            /\ ~Last(runLog').ok) =>
               /\ pc' = "returned"
               /\ running' = << >>
               /\ runErr' = Some(Join(<< ErrDBFailureText, ErrDatabaseFailureText >>))
               /\ FetchesIn(runLog') = Fetches
               /\ LoggedIn(runLog', "ScheduleJob") = << >>
        /\ (/\ pc = "finish"
            /\ Last(runLog').op = "ScheduleJob"
            /\ ~Last(runLog').ok) =>
               /\ pc' = "returned"
               /\ runErr' = Some(Join(<< ErrDBFailureText, ErrDatabaseFailureText >>)) ]_vars

\* A run has returned the error of the StoreCopyJobResults call that failed
\* on its second page, part of the page's users being written.
C12_Witness ==
    /\ pc = "returned"
    /\ Len(Fetches) = 2
    /\ Last(runLog).op = "StoreCopyJobResults"
    /\ ~Last(runLog).ok
    /\ runErr = Some(Join(<< ErrDBFailureText, ErrDatabaseFailureText >>))
    /\ PageOf(Fetches[2]).Users # << >>
    /\ \E r \in tables[TableOf(cj.Type)] : r.user_id = PageOf(Fetches[2]).Users[1]

PersistedIn(log) == SelectSeq(log, LAMBDA c : c.op = "StoreCopyJobResults" /\ c.ok)

\* The positions of the worker from the call of RunCopyJob to the handling
\* of what it returned.
InRun == pc \in {"pickup", "fetch", "persist", "pause", "finish", "returned"}

\* C13: from the pickup of a job to the return of its run, the stored cursor
\* is the next of the last page StoreCopyJobResults persisted in full, and
\* is the cursor stored when the run started while no page has been: a step
\* changes the stored cursor only by persisting a page in full, and then to
\* that page's next.
C13_CursorOfLastPersistedPage ==
    [][ InRun =>
          /\ Persisted # << >> => jobs[cj.ID].metadata.cursor = Last(Persisted).next
          /\ Persisted = << >> =>
                 cj.Metadata.Cursor = (IF jobs[cj.ID].metadata.cursor = Some("")
                                       THEN Nil ELSE jobs[cj.ID].metadata.cursor)
          /\ jobs'[cj.ID].metadata.cursor =
                 IF Len(PersistedIn(runLog')) > Len(Persisted)
                 THEN Last(PersistedIn(runLog')).next
                 ELSE jobs[cj.ID].metadata.cursor ]_vars

\* A run was aborted by a StoreCopyJobResults that failed on its second page
\* after writing users of that page, and the stored cursor is the next of
\* the first page.
C13_Witness ==
    /\ pc = "returned"
    /\ Len(Fetches) = 2
    /\ Len(Persisted) = 1
    /\ ~Last(runLog).ok
    /\ jobs[cj.ID].metadata.cursor = Fetches[1].next
    /\ jobs[cj.ID].metadata.cursor # Fetches[2].next
    /\ PageOf(Fetches[2]).Users # << >>
    /\ \E r \in tables[TableOf(cj.Type)] : r.user_id = PageOf(Fetches[2]).Users[1]

\* The calls a step adds to the log of the run.
NewCalls == SubSeq(runLog', Len(runLog) + 1, Len(runLog'))

\* C14: a step of the runner whose pickup, page-summary or completion event
\* could not be appended appends nothing and goes on as the code goes on
\* after the event: the pickup is followed by the first fetch from the
\* loaded cursor, the job untouched; a persisted page leaves the job active
\* with the page's next as cursor and is followed by the pause or, when the
\* next is absent or empty, by the end of the loop; the end of the run still
\* calls ScheduleJob and returns nil exactly when that call succeeds.
C14_AuditFailureNotFatal ==
    [][ (/\ pc \in {"pickup", "persist", "finish"}
         /\ \E i \in DOMAIN NewCalls : NewCalls[i].op = "InsertJobEvent" /\ ~NewCalls[i].ok) =>
          /\ events' = events
          /\ tables' = StoreTables(tables, cj, res, IF pc = "persist" THEN Len(res.Users) ELSE 0, now)
          /\ pc = "pickup" =>
                /\ pc' = "fetch"
                /\ jobs' = jobs
                /\ cursor' = cj.Metadata.Cursor
                /\ runErr' = Nil
          /\ pc = "persist" =>
                /\ pc' = IF Empty(res.Next) THEN "finish" ELSE "pause"
                /\ done' = Empty(res.Next)
                /\ jobs'[cj.ID].metadata.cursor = res.Next
                /\ jobs'[cj.ID].state = JobStateActive
                /\ jobs'[cj.ID].next_run = jobs[cj.ID].next_run
                /\ runErr' = Nil
          /\ pc = "finish" =>
                /\ pc' = "returned"
                /\ Last(NewCalls).op = "ScheduleJob"
                /\ Last(NewCalls).delay = 24 * Hour \/ Last(NewCalls).delay = 7 * 24 * Hour
                /\ runErr' = Nil <=> Last(NewCalls).ok
                /\ IF Last(NewCalls).ok
                   THEN /\ jobs'[cj.ID].next_run = Some(now + Last(NewCalls).delay)
                        /\ jobs'[cj.ID].state = JobStateActive
                        /\ jobs'[cj.ID].metadata = jobs[cj.ID].metadata
                   ELSE jobs' = jobs ]_vars

\* A run whose pickup event could not be appended has persisted its pages,
\* completed the sync and rescheduled the job.
C14_Witness ==
    /\ pc = "returned"
    /\ runErr = Nil
    /\ done
    /\ Len(runLog) > 2
    /\ runLog[2].op = "InsertJobEvent"
    /\ ~runLog[2].ok
    /\ Len(Persisted) = 2
    /\ Last(runLog).op = "ScheduleJob"
    /\ Last(runLog).ok
    /\ jobs[cj.ID].next_run = Some(now + 24 * Hour)
    /\ RunEvents = << CopiedText(3, Fetches[1].next), CopiedText(2, Nil), "Sync completed" >>

\* C15: the step that handles an error returned by RunCopyJob appends the
\* error's text to the job's audit trail or, when the append fails, appends
\* nothing, and takes the loop back to its select; the loop exits only when
\* the context is cancelled.
C15_RunErrorKeepsLoop ==
    [][ /\ (pc = "returned" /\ runErr # Nil /\ pc' # pc) =>
              /\ pc' = "select"
              /\ events' \in {events, Append(events, [ job_id |-> cj.ID, event_msg |-> runErr[1], ts |-> now ])}
              /\ jobs' = jobs
        /\ pc' = "exited" => ctxDone' ]_vars

\* The loop has claimed a job in its second iteration, after the run of its
\* first iteration returned an error whose text is in the audit trail.
C15_Witness ==
    /\ iter = 2
    /\ pc = "pickup"
    /\ ~ctxDone
    /\ \E i \in DOMAIN events :
          /\ events[i].job_id # cj.ID
          /\ events[i].event_msg = Join(<< ErrInvalidStatusText, ErrNoRetryText >>)

\* The run in hand has returned the failure of its first fetch, no store call
\* of the run has failed and the context is not cancelled.
FirstFetchFailed ==
    /\ pc = "returned"
    /\ ~ctxDone
    /\ Len(Fetches) = 1
    /\ ~Fetches[1].ok
    /\ \A i \in DOMAIN runLog : IsFetch(runLog[i]) \/ runLog[i].ok

\* The events of the trail that belong to the run in hand and are not its
\* pickup event.
ErrorEventsOf(trail) ==
    SelectSeq(trail, LAMBDA e : /\ e.job_id = cj.ID
                                /\ e.ts >= jobs[cj.ID].last_run[1]
                                /\ e.event_msg # "job picked up for execution")

\* C16 as stated: once the loop has handled the failure of a run's first
\* fetch, its appends succeeding, the job's trail holds exactly one event of
\* that run that contains the error text.
C16_OneErrorEvent ==
    [][ (FirstFetchFailed /\ pc' = "select" /\ faults' = faults) =>
            Len(ErrorEventsOf(events')) = 1 ]_vars

\* C16 as amended: RunCopyJob appends exactly one event, whose text is the
\* fetch error's, and StartCopying then appends a second one, whose text is
\* that of the error RunCopyJob returned: the fetch error's text followed by
\* the text of ErrNoRetry.
C16_TwoErrorEvents ==
    [][ /\ FirstFetchFailed =>
              /\ Len(ErrorEventsOf(events)) = 1
              /\ ErrorEventsOf(events)[1].event_msg \in {ErrInvalidStatusText, ErrHTTPFailureText}
              /\ runErr = Some(Join(<< ErrorEventsOf(events)[1].event_msg, ErrNoRetryText >>))
        /\ (FirstFetchFailed /\ pc' = "select" /\ faults' = faults) =>
              /\ Len(ErrorEventsOf(events')) = 2
              /\ ErrorEventsOf(events')[1] = ErrorEventsOf(events)[1]
              /\ ErrorEventsOf(events')[2].event_msg = runErr[1] ]_vars

\* The loop is back at its select after a run whose first fetch failed: the
\* job's trail holds the pickup event, the runner's event with the error
\* text and the loop's event with the text of the returned error.
C16_Witness ==
    /\ pc = "select"
    /\ Len(events) = 3
    /\ \A i \in 1 .. 3 : events[i].job_id = events[1].job_id
    /\ jobs[events[1].job_id].state = JobStateError
    /\ events[1].event_msg = "job picked up for execution"
    /\ events[2].event_msg = ErrInvalidStatusText
    /\ events[3].event_msg = Join(<< ErrInvalidStatusText, ErrNoRetryText >>)

\* C17: a run that is in flight when the context is cancelled comes to its
\* normal end, so it returns nil (once the context is cancelled the only
\* calls that fail are those the cancellation fails); no run is started
\* once the context is cancelled, and nothing moves once the loop has
\* exited.
C17_CancelSparesRun ==
    [][ /\ (ctxDone /\ running = << cj.ID >> /\ pc' = "returned") => runErr' = Nil
        /\ ctxDone => Len(running') <= Len(running)
        /\ pc = "exited" => pc' = "exited" /\ running' = running ]_vars

\* C18: the first iteration of the loop starts one millisecond after the
\* loop, every later one a minute after the loop came back to its select,
\* and whatever an iteration finds it sets the next wait to one minute.
C18_OneMinuteBetweenIterations ==
    [][ iter' = iter + 1 =>
          /\ now' - now = IF iter = 0 THEN Millisecond ELSE Minute
          /\ iter = 0 => now = 0
          /\ delay' = Minute ]_vars

\* The second iteration has claimed a job one minute after the first one,
\* which ran no job.
C18_Witness ==
    /\ iter = 2
    /\ pc = "touch"
    /\ events = << >>
    /\ now = Millisecond + Minute

\* C19: the step that takes the loop from the return of RunCopyJob back to
\* its select, whether the run returned an error or not, lets 10 to 15
\* minutes pass; an iteration that ends without a run (no job, a failed
\* query, a failed TouchJob) lets no time pass beyond the wait of its select.
C19_SleepAfterJob ==
    [][ /\ (pc = "returned" /\ pc' = "select") =>
              /\ now' - now >= 10 * Minute
              /\ now' - now <= 15 * Minute
        /\ (pc = "touch" /\ pc' = "select") => now' = now
        /\ (pc = "select" /\ iter' # iter) => now' = now + delay ]_vars

\* The loop is back at its select 14 minutes after the first run, which
\* started at once and made no pause, returned an error.
C19_Witness ==
    /\ pc = "select"
    /\ iter = 1
    /\ events # << >>
    /\ Last(events).event_msg = Join(<< ErrInvalidStatusText, ErrNoRetryText >>)
    /\ now = Millisecond + 14 * Minute

\* The row of a user of an account in a set of rows.
RowOf(table, accountID, userID) ==
    CHOOSE r \in table : r.account_id = accountID /\ r.user_id = userID

\* C20: when StoreCopyJobResults persists for a job the page it has just
\* persisted for it, every user of the page keeps its one row and that
\* row's first_seen, the row's last_seen becomes the time of the second
\* call, no row is added, and the job's row, its stored cursor included, is
\* what the first call left.
C20_StoreIdempotent ==
    [][ (/\ runLog # << >>
         /\ Len(runLog') = Len(runLog) + 1
         /\ runLog[Len(runLog)].ok
         /\ runLog'[Len(runLog')].ok
         /\ cj'.ID = cj.ID
         /\ res' = res) =>
          LET T == TableOf(cj.Type)
              acc == cj.Metadata.UserID
          IN  /\ \A i \in DOMAIN res.Users :
                    /\ Cardinality({ r \in tables'[T] : r.account_id = acc /\ r.user_id = res.Users[i] }) = 1
                    /\ RowOf(tables'[T], acc, res.Users[i]).first_seen
                          = RowOf(tables[T], acc, res.Users[i]).first_seen
                    /\ RowOf(tables'[T], acc, res.Users[i]).last_seen = now
                    /\ RowOf(tables[T], acc, res.Users[i]).last_seen <= now
              /\ Cardinality(tables'[T]) = Cardinality(tables[T])
              /\ jobs'[cj.ID].metadata.cursor = res.Next
              /\ jobs' = jobs ]_vars

\* A page of three users has been persisted twice for a job, a minute apart.
C20_Witness ==
    /\ Len(runLog) = 2
    /\ runLog[1].ok /\ runLog[2].ok
    /\ runLog[1].op = "StoreCopyJobResults"
    /\ runLog[1].cursor = runLog[2].cursor
    /\ now = Minute
    /\ Len(res.Users) = 3
    /\ Cardinality(tables[TableOf(cj.Type)]) = 3
    /\ \A r \in tables[TableOf(cj.Type)] : r.first_seen = 0 /\ r.last_seen = Minute

\* C21: the step in which StoreCopyJobResults returns an error leaves the
\* connection tables and the jobs table as they were, and the step in which
\* it succeeds has written a row for every user of the page and the page's
\* next as the job's cursor.
C21_PersistAtomic ==
    [][ (pc = "persist" /\ pc' # pc) =>
          LET call == SelectSeq(NewCalls, LAMBDA c : c.op = "StoreCopyJobResults")[1]
          IN  IF call.ok
              THEN /\ \A i \in DOMAIN res.Users :
                         \E r \in tables'[TableOf(cj.Type)] :
                             /\ r.account_id = cj.Metadata.UserID
                             /\ r.user_id = res.Users[i]
                             /\ r.last_seen = now
                   /\ jobs'[cj.ID].metadata.cursor = res.Next
              ELSE /\ tables' = tables
                   /\ jobs' = jobs ]_vars

\* C22: no job is handed to two of the callers of NextJob.
C22_NoDoubleClaim ==
    \A i, k \in DOMAIN running : i # k => running[i] # running[k]

\* C23: the runner pauses only after a page that has a next cursor and
\* while attempts remain, so a run makes at most 3 pauses.
C23_PauseOnlyBetweenAttempts ==
    /\ pc = "pause" => (~Empty(res.Next) /\ a + 1 < attempts)
    /\ Len(LoggedIn(runLog, "Sleep")) <= attempts - 1

\* C24: the CopyJob loaded for a job never has the empty string as cursor,
\* and the step that persists a page whose next is absent or the empty
\* string completes the sync and leaves the job's stored cursor null.
C24_EmptyCursorCleared ==
    [][ /\ cj'.Metadata.Cursor # Some("")
        /\ (/\ pc = "persist"
            /\ Empty(res.Next)
            /\ PersistedIn(NewCalls) # << >>) =>
               /\ done'
               /\ pc' = "finish"
               /\ jobs'[cj.ID].metadata.cursor = Nil ]_vars

RunCalls == SelectSeq(runLog, LAMBDA c : c.op \notin {"Sleep", "TouchJob"})

Made(op) == \E i \in DOMAIN NewCalls : NewCalls[i].op = op /\ NewCalls[i].ok

\* C27 as stated: a step of the worker on the job in hand, from its claim
\* to the return of its run, changes the job's state and next_run only by
\* a ScheduleJob that succeeds (active, now + delay) or by an UpdateJob that
\* succeeds (error).
C27_StateWrittenAtEndOnly ==
    [][ ((pc = "touch" \/ InRun) /\ pc' # pc /\ pc # "returned") =>
          IF Made("ScheduleJob")
          THEN /\ jobs'[cj.ID].state = JobStateActive
               /\ jobs'[cj.ID].next_run = Some(now + Last(NewCalls).delay)
          ELSE /\ jobs'[cj.ID].next_run = jobs[cj.ID].next_run
               /\ jobs'[cj.ID].state = IF Made("UpdateJob") THEN JobStateError
                                        ELSE jobs[cj.ID].state ]_vars

\* C27 as amended: the state is also written by every StoreCopyJobResults
\* that succeeds, which sets it to active; next_run is written by
\* ScheduleJob only.
C27_StateWrittenByPersist ==
    [][ ((pc = "touch" \/ InRun) /\ pc' # pc /\ pc # "returned") =>
          IF Made("ScheduleJob")
          THEN /\ jobs'[cj.ID].state = JobStateActive
               /\ jobs'[cj.ID].next_run = Some(now + Last(NewCalls).delay)
          ELSE /\ jobs'[cj.ID].next_run = jobs[cj.ID].next_run
               /\ jobs'[cj.ID].state = IF Made("UpdateJob") THEN JobStateError
                                        ELSE IF Made("StoreCopyJobResults") THEN JobStateActive
                                        ELSE jobs[cj.ID].state ]_vars

\* The weekly copy-following job, which is in state new when the worker
\* starts, is active after the first page of its first run, before any
\* reschedule.
C27_Witness ==
    /\ iter = 1
    /\ pc = "pause"
    /\ Len(Persisted) = 1
    /\ cj.Type = JobTypeCopyFollowing
    /\ jobs[cj.ID].metadata.frequency = JobFrequencyWeekly
    /\ jobs[cj.ID].next_run = Some(0 - Minute)
    /\ jobs[cj.ID].state = JobStateActive

\* The positions of the worker inside RunCopyJob.
RunPositions == { "pickup", "fetch", "persist", "pause", "finish", "returned" }

\* C28: the runner is entered only by the step that made a successful
\* TouchJob for the job in hand; a step whose TouchJob failed puts the loop
\* back at the select with no fetch made, the job rows, the connection
\* tables and the events unchanged, and the clock not advanced by any
\* sleep, the next timer being the one-minute one.
C28_RunOnlyAfterTouch ==
    [][ /\ (pc' \in RunPositions /\ pc \notin RunPositions) =>
              /\ pc = "touch"
              /\ Last(runLog') = Call("TouchJob", TRUE, Nil, Nil, 0)
              /\ cj' = cj
              /\ jobs'[cj.ID].last_run = Some(now)
        /\ (pc = "touch" /\ pc' # pc /\ ~Last(runLog').ok) =>
              /\ pc' = "select"
              /\ Last(runLog').op = "TouchJob"
              /\ FetchesIn(runLog') = << >>
              /\ jobs' = jobs
              /\ tables' = tables
              /\ events' = events
              /\ running' = running
              /\ now' = now
              /\ delay' = Minute ]_vars

\* TouchJob has failed for a claimed job while the context is live: the
\* loop is back at its select, the job was not run and is still eligible
\* with no last_run written by this iteration.
C28_Witness ==
    /\ pc = "select"
    /\ ~ctxDone
    /\ runLog # << >>
    /\ Last(runLog) = Call("TouchJob", FALSE, Nil, Nil, 0)
    /\ cj = NoJob
    /\ running = << >>
    /\ \E j \in JobIDs : Eligible(jobs[j], JobTypeCopyFollowers, now) /\ jobs[j].last_run # Some(now)

\* The pages of the list job j copies of which the store holds the users:
\* page k holds a user no other page holds.
PagesStored(tabs, j) ==
    { k \in 1 .. (LongList + ShortList) :
        \E r \in tabs[TableOf(jobs[j].job_type)] :
            /\ r.account_id = jobs[j].metadata.userID
            /\ r.user_id = UserBase(Endpoint(FetchMethod(jobs[j].job_type))) + 10 * k }

\* The events of job j with a text.
EventsOf(trail, j, msg) == SelectSeq(trail, LAMBDA e : e.job_id = j /\ e.event_msg = msg)

\* C29: with no failure, the first fetch of a run uses the cursor the store
\* holds for the job (the empty one read as none), which designates the
\* page after the pages stored so far; every page persisted is the page
\* after the pages stored so far, so the pages are persisted once each and
\* in order over the runs; and a sync that has completed has taken
\* ceil(n / attempts) runs for a list fetched in n pages.
C29_ResumesFromStoredCursor ==
    [][ /\ (pc = "fetch" /\ pc' = "persist" /\ FetchesIn(runLog) = << >>) =>
              /\ cursor = (IF jobs[cj.ID].metadata.cursor = Some("") THEN Nil
                           ELSE jobs[cj.ID].metadata.cursor)
              /\ PageIndex(cursor) = 1 + Cardinality(PagesStored(tables, cj.ID))
        /\ (pc = "persist" /\ pc' # pc) =>
              /\ Last(FetchesIn(runLog)).next = res.Next
              /\ PageIndex(Last(FetchesIn(runLog)).cursor) = 1 + Cardinality(PagesStored(tables, cj.ID))
              /\ jobs'[cj.ID].metadata.cursor = res.Next
              /\ PagesStored(tables', cj.ID) =
                     PagesStored(tables, cj.ID) \cup
                        (IF res.Users = << >> THEN {} ELSE {PageIndex(Last(FetchesIn(runLog)).cursor)})
        /\ \A j \in JobIDs :
              LET runs == Len(EventsOf(events', j, "job picked up for execution"))
                  n == RemoteLen(jobs[j].metadata.userID)
              IN  /\ runs <= (n + attempts - 1) \div attempts
                  /\ EventsOf(events', j, "Sync completed") # << >> =>
                         runs = (n + attempts - 1) \div attempts ]_vars

\* A list fetched in more pages than one run takes has been copied in two
\* runs: the job was picked up twice, its sync is complete and every page
\* that has users is stored.
C29_Witness ==
    \E j \in JobIDs :
        /\ RemoteLen(jobs[j].metadata.userID) > attempts
        /\ Len(EventsOf(events, j, "job picked up for execution")) = 2
        /\ EventsOf(events, j, "Sync completed") # << >>
        /\ PagesStored(tables, j) = 1 .. (RemoteLen(jobs[j].metadata.userID) - 1)
        /\ jobs[j].next_run[1] > now + Hour

\* The jobs of either type that are eligible at time t and whose metadata
\* validates.
ValidEligible(rows, t) ==
    { j \in DOMAIN rows :
        /\ Eligible(rows[j], JobTypeCopyFollowers, t) \/ Eligible(rows[j], JobTypeCopyFollowing, t)
        /\ NewCopyJobOK(rows[j]) }

\* C30: an eligible job whose metadata does not validate does not block the
\* others.  An iteration that ends with an error and leaves the jobs as
\* they were is followed by iterations that end the same way, so the claim
\* requires that no iteration in which every store call succeeds, made
\* while a job with valid metadata is eligible, ends with the error of a
\* load and the jobs unchanged.
C30_InvalidJobDoesNotBlock ==
    [][ ( /\ pc = "select"
          /\ iter' = iter + 1
          /\ ~ctxDone
          /\ faults' = faults
          /\ ValidEligible(jobs, now') # {} ) =>
        ~(pollErr' /\ jobs' = jobs) ]_vars

====
